---- MODULE Spec2Model ----
(***************************************************************************)
(* A model of jcaas (src/jcaas/__init__.py): the resolution of a job       *)
(* destination for a tool, through a remote authority with bounded retry   *)
(* and a local pipeline as fallback.                                       *)
(*                                                                         *)
(* Representation of Python values:                                        *)
(*  - a dict is a function whose DOMAIN is its key set;                    *)
(*  - a number that may be a float (mem) is a record [v, f]: v counts      *)
(*    twentieths of a unit and f tells a float from an int, because        *)
(*    '%s' % 8 is "8" and '%s' % 8.0 is "8.0";                             *)
(*  - a string that the code slices or searches (role names, machine       *)
(*    names) is a sequence of one-character strings; a string that is      *)
(*    only compared or concatenated is a TLA+ string;                      *)
(*  - a tool id is the sequence of its '/'-separated segments.             *)
(***************************************************************************)
EXTENDS Integers, Sequences, FiniteSets, TLC

VARIABLES
    TOOL_DESTINATIONS,  \* the per-tool override records (module global)
    TRAINING_MACHINES,  \* the machine inventory cache (module global)
    now,                \* time.time()
    pc,                 \* where the call in progress stands
    call,               \* the arguments of the call in progress
    tries,              \* remote attempts made by the call in progress
    ret,                \* what the call in progress has produced
    arg,                \* the argument of a pure function under check
    out                 \* the value the pure function returned, in a set

vars == <<TOOL_DESTINATIONS, TRAINING_MACHINES, now, pc, call, tries,
          ret, arg, out>>

----------------------------------------------------------------------------
(* Numbers *)

\* Twentieths per unit: 0.3 is 6, and a multiple of 0.25 is a multiple of 5.
GB == 2 * 10

PyInt(n) == [v |-> n * GB, f |-> FALSE]

PyFloat(v) == [v |-> v, f |-> TRUE]

\* a * scale, scale a float given in tenths (1.0 is 10, 1.5 is 15)
PyMulFloat(a, scale) == [v |-> (a.v * scale) \div 10, f |-> TRUE]

\* min(a, n) for an int n: Python returns its first argument unless n < a
PyMin(a, n) == IF n * GB < a.v THEN PyInt(n) ELSE a

\* int(math.ceil(a))
PyCeil(a) == [v |-> ((a.v + GB - 1) \div GB) * GB, f |-> FALSE]

\* str(a): an int prints its digits, a float always prints a fraction
PyStr(a) ==
    LET whole == a.v \div GB
        hundredths == (a.v % GB) * 5
        frac == IF hundredths % 10 = 0 THEN ToString(hundredths \div 10)
                ELSE IF hundredths < 10 THEN "0" \o ToString(hundredths)
                ELSE ToString(hundredths)
    IN  IF a.f THEN ToString(whole) \o "." \o frac ELSE ToString(whole)

\* dict.get(key, default)
Get(d, key, default) == IF key \in DOMAIN d THEN d[key] ELSE default

\* d.update(e): e wins on a key collision
Update(d, e) == e @@ d

EmptyDict == [k \in {} |-> 0]

----------------------------------------------------------------------------
(* Maximum resources *)

CONDOR_MAX_CORES == 40

CONDOR_MAX_MEM == 250 - 2

SGE_MAX_CORES == 24

SGE_MAX_MEM == 256 - 2

STALE_CONDOR_HOST_INTERVAL == 60

----------------------------------------------------------------------------
(* Strings held as sequences of characters *)

\* sub in s
Contains(sub, s) ==
    \E i \in 1..(Len(s) - Len(sub) + 1) : SubSeq(s, i, i + Len(sub) - 1) = sub

\* s.startswith(prefix)
StartsWith(s, prefix) ==
    Len(s) >= Len(prefix) /\ SubSeq(s, 1, Len(prefix)) = prefix

RECURSIVE Str(_)
\* the characters of s as one string
Str(s) == IF s = <<>> THEN "" ELSE Head(s) \o Str(Tail(s))

sge == <<"s", "g", "e">>

condor == <<"c", "o", "n", "d", "o", "r">>

\* the default of tool_spec.get('runner', 'local') in handle_downed_runners
local == <<"l", "o", "c", "a", "l">>

----------------------------------------------------------------------------
(* name_it *)

name_it(tool_spec) ==
    LET base ==
            IF "cores" \in DOMAIN tool_spec
            THEN ToString(Get(tool_spec, "cores", 1)) \o "cores_"
                    \o PyStr(Get(tool_spec, "mem", PyInt(4))) \o "G"
            ELSE IF \/ Cardinality(DOMAIN tool_spec) = 0
                    \/ (Cardinality(DOMAIN tool_spec) = 1
                            /\ "runner" \in DOMAIN tool_spec)
            THEN Str(Get(tool_spec, "runner", sge)) \o "_default"
            ELSE PyStr(Get(tool_spec, "mem", PyInt(4))) \o "G_memory"
        large == IF "tmp" \in DOMAIN tool_spec /\ tool_spec["tmp"] = "large"
                 THEN base \o "_large" ELSE base
    IN  IF "name" \in DOMAIN tool_spec
        THEN large \o "_" \o tool_spec["name"] ELSE large

----------------------------------------------------------------------------
(* Templates: a value of SPECIFICATIONS is text with {TOKEN} placeholders, *)
(* held as a sequence of pieces, each a literal or a token.                *)

Lit(s) == [tok |-> "", lit |-> s]

Tok(t) == [tok |-> t, lit |-> ""]

\* The backend base templates of config/destination_specifications.yaml.
SPECIFICATIONS ==
    (sge :> [env |-> EmptyDict,
             params |-> [nativeSpecification |->
                            <<Lit("-p "), Tok("PRIORITY"), Lit(" -l h_vmem="),
                              Tok("MEMORY"), Lit(" "), Tok("PARALLELISATION"),
                              Lit(" "), Tok("NATIVE_SPEC_EXTRA"), Lit(" "),
                              Lit("-v _JAVA_OPTIONS")>>]])
    @@ (condor :> [env |-> EmptyDict,
                   params |-> [priority |-> <<Tok("PRIORITY")>>,
                               request_cpus |-> <<Tok("PARALLELISATION")>>,
                               request_memory |-> <<Tok("MEMORY")>>,
                               requirements |-> <<Lit("")>>,
                               rank |-> <<Lit("")>>]])

RECURSIVE Format(_, _)
\* str(v).format(**kwargs)
Format(v, kwargs) ==
    IF v = <<>> THEN ""
    ELSE (IF Head(v).tok = "" THEN Head(v).lit ELSE kwargs[Head(v).tok])
            \o Format(Tail(v), kwargs)

\* text.replace(flag, ''), for a flag that is a piece of its own
Replace(v, flag) == SelectSeq(v, LAMBDA p : p # Lit(flag))

----------------------------------------------------------------------------
(* build_spec *)

\* tool_memory after the clamp of lines 93-98
ClampMem(destination, tool_memory) ==
    IF destination = sge THEN PyMin(tool_memory, SGE_MAX_MEM)
    ELSE IF Contains(condor, destination) THEN PyMin(tool_memory, CONDOR_MAX_MEM)
    ELSE tool_memory

\* ClampCores with the clamp forgotten
ClampCoresForgotten(destination, tool_cores) == tool_cores

\* tool_cores after the clamp of lines 93-98
ClampCores(destination, tool_cores) ==
    IF destination = sge
    THEN (IF SGE_MAX_CORES < tool_cores THEN SGE_MAX_CORES ELSE tool_cores)
    ELSE IF Contains(condor, destination)
    THEN (IF CONDOR_MAX_CORES < tool_cores THEN CONDOR_MAX_CORES ELSE tool_cores)
    ELSE tool_cores

\* RealMemory rounding up where int() truncates
RealMemoryRoundedUp(tool_memory, cores) ==
    (1024 * tool_memory.v + GB * cores - 1) \div (GB * cores)

\* int(1024 * tool_memory / cores): int() truncates
RealMemory(tool_memory, cores) == (1024 * tool_memory.v) \div (GB * cores)

\* TransportRunner with 'condor' compared instead of searched
TransportRunnerExact(destination) ==
    IF destination = sge THEN "drmaa"
    ELSE IF destination = condor THEN "condor"
    ELSE "local"

\* The runner of the result, lines 155-160
TransportRunner(destination) ==
    IF destination = sge THEN "drmaa"
    ELSE IF Contains(condor, destination) THEN "condor"
    ELSE "local"

build_spec(tool_spec) ==
    LET destination == Get(tool_spec, "runner", sge)
        base == Get(SPECIFICATIONS, destination,
                    [env |-> EmptyDict, params |-> EmptyDict])
        tool_memory == ClampMem(destination, Get(tool_spec, "mem", PyInt(4)))
        tool_cores == ClampCores(destination, Get(tool_spec, "cores", 1))
        isSge == destination = sge
        isCondor == ~isSge /\ Contains(condor, destination)
        hasCores == "cores" \in DOMAIN tool_spec
        extra0 == IF isSge /\ "nativeSpecExtra" \in DOMAIN tool_spec
                  THEN tool_spec["nativeSpecExtra"] ELSE ""
        extra == IF isSge /\ Get(tool_spec, "tmp", "") = "large"
                 THEN extra0 \o "-l has_largetmp=1" ELSE extra0
        kwargs ==
            [PRIORITY |-> ToString(Get(tool_spec, "priority", 128)),
             MEMORY |->
                IF isSge /\ hasCores
                THEN ToString(RealMemory(tool_memory, tool_spec["cores"])) \o "M"
                ELSE PyStr(tool_memory) \o "G",
             PARALLELISATION |->
                IF isSge /\ hasCores THEN "-pe \"pe*\" " \o ToString(tool_cores)
                ELSE IF isCondor /\ hasCores THEN ToString(tool_cores)
                ELSE "",
             NATIVE_SPEC_EXTRA |-> extra]
        raw_mem == IF (isSge /\ hasCores) \/ (isCondor /\ "mem" \in DOMAIN tool_spec)
                   THEN "mem" :> tool_memory ELSE EmptyDict
        raw_cpu == IF (isSge \/ isCondor) /\ hasCores
                   THEN "cpu" :> tool_cores ELSE EmptyDict
        java == isSge /\ "env" \in DOMAIN tool_spec
                      /\ "_JAVA_OPTIONS" \in DOMAIN tool_spec["env"]
        params1 == IF java
                   THEN Update(base.params,
                               "nativeSpecification" :>
                                   Replace(base.params["nativeSpecification"],
                                           "-v _JAVA_OPTIONS"))
                   ELSE base.params
        params2 == IF isCondor /\ "requirements" \in DOMAIN tool_spec
                   THEN Update(params1, "requirements" :> <<Lit(tool_spec["requirements"])>>)
                   ELSE params1
        params3 == IF isCondor /\ "rank" \in DOMAIN tool_spec
                   THEN Update(params2, "rank" :> <<Lit(tool_spec["rank"])>>)
                   ELSE params2
        env4 == Update(base.env, Get(tool_spec, "env", EmptyDict))
        params4 == Update(params3, Get(tool_spec, "params", EmptyDict))
    IN  [env |-> {[name |-> k, value |-> Format(env4[k], kwargs)] : k \in DOMAIN env4},
         params |-> [k \in DOMAIN params4 |-> Format(params4[k], kwargs)],
         runner |-> TransportRunner(destination),
         raw |-> raw_mem @@ raw_cpu,
         kwargs |-> kwargs]

----------------------------------------------------------------------------
(* Names the code slices, searches or sorts *)

training == <<"t", "r", "a", "i", "n", "i", "n", "g">>

upload == <<"u", "p", "l", "o", "a", "d">>

metadata == <<"m", "e", "t", "a", "d", "a", "t", "a">>

\* 'training-', the prefix of a training role
TrainingPrefix == <<"t", "r", "a", "i", "n", "i", "n", "g", "-">>

force_condor == <<"g", "x", "-", "a", "d", "m", "i", "n", "-", "f", "o", "r", "c", "e", "-", "j", "o", "b", "s", "-", "t", "o", "-", "c", "o", "n", "d", "o", "r">>

force_drmaa == <<"g", "x", "-", "a", "d", "m", "i", "n", "-", "f", "o", "r", "c", "e", "-", "j", "o", "b", "s", "-", "t", "o", "-", "d", "r", "m", "a", "a">>

\* The characters of the names of the model, in code point order
Alphabet == <<"-", "1", "2", "_", "a", "b", "c", "d", "e", "f", "g", "i", "j",
              "k", "l", "m", "n", "o", "p", "r", "s", "t", "u", "x">>

Ord(c) == CHOOSE i \in 1..Len(Alphabet) : Alphabet[i] = c

RECURSIVE StrLess(_, _)
\* s < t, as Python compares strings
StrLess(s, t) ==
    IF t = <<>> THEN FALSE
    ELSE IF s = <<>> THEN TRUE
    ELSE IF Head(s) # Head(t) THEN Ord(Head(s)) < Ord(Head(t))
    ELSE StrLess(Tail(s), Tail(t))

RECURSIVE sorted(_)
\* sorted(S) of a set of strings
sorted(S) ==
    IF S = {} THEN <<>>
    ELSE LET m == CHOOSE x \in S : \A y \in S \ {x} : StrLess(x, y)
         IN  <<m>> \o sorted(S \ {m})

RECURSIVE join(_, _)
\* sep.join(data)
join(sep, data) ==
    IF data = <<>> THEN ""
    ELSE IF Len(data) = 1 THEN data[1]
    ELSE data[1] \o sep \o join(sep, Tail(data))

\* set(xs) of a list
ToSet(xs) == {xs[i] : i \in DOMAIN xs}

----------------------------------------------------------------------------
(* get_tool_id *)

\* tool_id.count('/') is one less than the number of segments
get_tool_id(tool_id) ==
    IF Len(tool_id) - 1 = 0 THEN tool_id
    ELSE IF Len(tool_id) - 1 = 5 THEN <<tool_id[5]>>
    ELSE tool_id

----------------------------------------------------------------------------
(* Availability probes *)

\* What subprocess.check_output(['condor_status']) can do
CondorStatusOutcomes == {"executors", "empty", "CalledProcessError", "FileNotFoundError"}

drmaa_is_available(files) == "temporarily-disable-drmaa" \notin files

condor_is_available(files, status) ==
    IF "temporarily-disable-condor" \in files THEN FALSE
    ELSE status = "executors"

----------------------------------------------------------------------------
(* The machine inventory cache.  A function that reads or refreshes the    *)
(* cache takes it as tm and returns [v |-> its value, tm |-> the cache     *)
(* after the call]; t is time.time() and machine_list the machine names    *)
(* condor_status lists (none when the command fails).                      *)

\* get_training_machines returning the list it read before the refresh
get_training_machines_stale(group, tm, t, machine_list) ==
    LET tm0 == IF group \in DOMAIN tm THEN tm
               ELSE Update(tm, group :> [updated |-> 0, machines |-> <<>>])
        marker == <<"-">> \o group \o <<"-">>
        tm1 == IF t - tm0[group].updated > STALE_CONDOR_HOST_INTERVAL
               THEN Update(tm0, group :>
                        [updated |-> t,
                         machines |-> SelectSeq(machine_list,
                                                LAMBDA x : Contains(marker, x))])
               ELSE tm0
    IN  [v |-> tm0[group].machines, tm |-> tm1]

get_training_machines(group, tm, t, machine_list) ==
    LET tm0 == IF group \in DOMAIN tm THEN tm
               ELSE Update(tm, group :> [updated |-> 0, machines |-> <<>>])
        marker == <<"-">> \o group \o <<"-">>
        tm1 == IF t - tm0[group].updated > STALE_CONDOR_HOST_INTERVAL
               THEN Update(tm0, group :>
                        [updated |-> t,
                         machines |-> SelectSeq(machine_list,
                                                LAMBDA x : Contains(marker, x))])
               ELSE tm0
    IN  [v |-> tm1[group].machines, tm |-> tm1]

\* The expression avoid_machines builds from the machines it was given
AvoidExpr(permissible, machines) ==
    LET to_remove == {m \in machines : \E i \in DOMAIN permissible :
                                            Contains(permissible[i], m)}
        rest == sorted(machines \ to_remove)
        data == [i \in DOMAIN rest |-> "(machine != \"" \o Str(rest[i]) \o "\")"]
    IN  IF Len(data) > 0 THEN "( " \o join(" && ", data) \o " )" ELSE ""

avoid_machines(permissible, tm, t, machine_list) ==
    LET got == get_training_machines(training, tm, t, machine_list)
    IN  [v |-> AvoidExpr(permissible, ToSet(got.v)), tm |-> got.tm]

\* The expression prefer_machines builds from the machines it was given
PreferExpr(training_identifiers, machines) ==
    LET allowed == {m \in machines : \E i \in DOMAIN training_identifiers :
                                            Contains(training_identifiers[i], m)}
        hits == sorted(allowed)
        data == [i \in DOMAIN hits |-> "(machine == \"" \o Str(hits[i]) \o "\")"]
    IN  IF Len(data) > 0 THEN "( " \o join(" || ", data) \o " )" ELSE ""

prefer_machines(training_identifiers, machine_group, tm, t, machine_list) ==
    LET got == get_training_machines(machine_group, tm, t, machine_list)
    IN  [v |-> PreferExpr(training_identifiers, ToSet(got.v)), tm |-> got.tm]

----------------------------------------------------------------------------
(* The local pipeline *)

\* [role[len('training-'):] for role in user_roles if role.startswith('training-')]
TrainingRoles(user_roles) ==
    LET picked == SelectSeq(user_roles, LAMBDA role : StartsWith(role, TrainingPrefix))
    IN  [i \in DOMAIN picked |->
            SubSeq(picked[i], Len(TrainingPrefix) + 1, Len(picked[i]))]

\* The update for a caller with training roles, lines 298-304, from what
\* avoid_machines and then prefer_machines returned
Dedicated(avoid, prefer) ==
    [v |-> [requirements |-> avoid.v, rank |-> prefer.v, runner |-> condor],
     tm |-> prefer.tm]

\* prefer_machines called on the cache avoid_machines left
ThenPrefer(training_roles, avoid, t, machine_list) ==
    Dedicated(avoid, prefer_machines(training_roles, training, avoid.tm, t, machine_list))

\* The update for a caller without training roles and a record on condor,
\* line 292, from what avoid_machines returned
Requirement(avoid) == [v |-> "requirement" :> avoid.v, tm |-> avoid.tm]

reroute_to_dedicated(tool_spec, user_roles, tm, t, machine_list) ==
    IF Len(TrainingRoles(user_roles)) = 0
    THEN IF "runner" \in DOMAIN tool_spec /\ tool_spec["runner"] = condor
         THEN Requirement(avoid_machines(<<>>, tm, t, machine_list))
         ELSE [v |-> EmptyDict, tm |-> tm]
    ELSE ThenPrefer(TrainingRoles(user_roles),
                    avoid_machines(TrainingRoles(user_roles), tm, t, machine_list),
                    t, machine_list)

\* The record that replaces the tool's for tool id 'upload1', from what
\* prefer_machines returned
UploadSpec(prefer) ==
    [v |-> [mem |-> PyFloat(6), runner |-> condor, requirements |-> prefer.v,
            env |-> [TEMP |-> <<Lit("/data/1/galaxy_db/tmp/")>>]],
     tm |-> prefer.tm]

\* The record that replaces the tool's for tool id '__SET_METADATA__'
MetadataSpec(prefer) ==
    [v |-> [mem |-> PyFloat(6), runner |-> condor, requirements |-> prefer.v],
     tm |-> prefer.tm]

\* tool_spec['mem'] = tool_spec.get('mem', 4) * memory_scale
ScaledMem(tool_spec, memory_scale) ==
    Update(tool_spec,
           "mem" :> PyMulFloat(Get(tool_spec, "mem", PyInt(4)), memory_scale))

\* A record with the value of a function that used the cache
Of(v, got) == [v |-> v, tm |-> got.tm]

\* Finalize without the two special tools
FinalizeNoSpecial(tool_id, tool_spec, reroute, memory_scale, t, machine_list) ==
    Of(ScaledMem(Update(tool_spec, reroute.v), memory_scale), reroute)

\* Lines 313-333, from the tool's record and what reroute_to_dedicated returned
Finalize(tool_id, tool_spec, reroute, memory_scale, t, machine_list) ==
    IF tool_id = <<"upload1">>
    THEN UploadSpec(prefer_machines(<<upload>>, upload, reroute.tm, t, machine_list))
    ELSE IF tool_id = <<"__SET_METADATA__">>
    THEN MetadataSpec(prefer_machines(<<metadata>>, metadata, reroute.tm, t, machine_list))
    ELSE Of(ScaledMem(Update(tool_spec, reroute.v), memory_scale), reroute)

\* Lines 309-313: the lookup, and the call of reroute_to_dedicated
Lookup(tool_id, tool_spec, user_roles, memory_scale, tm, t, machine_list) ==
    Finalize(tool_id, tool_spec,
             reroute_to_dedicated(tool_spec, user_roles, tm, t, machine_list),
             memory_scale, t, machine_list)

_finalize_tool_spec(catalog, tool_id, user_roles, memory_scale, tm, t, machine_list) ==
    Lookup(tool_id, Get(catalog, get_tool_id(tool_id), EmptyDict), user_roles,
           memory_scale, tm, t, machine_list)

\* convert_condor_to_sge without the rounding of mem
convert_condor_to_sge_keeps_mem(tool_spec) ==
    Update(tool_spec, "runner" :> sge)

convert_condor_to_sge(tool_spec) ==
    Update(tool_spec, [runner |-> sge, mem |-> PyCeil(tool_spec["mem"])])

convert_sge_to_condor(tool_spec) ==
    Update(tool_spec, "runner" :> condor)

\* The record handle_downed_runners returns when it does not raise
handle_downed_runners(tool_spec, avail_condor, avail_drmaa) ==
    IF Get(tool_spec, "runner", local) = condor
    THEN IF avail_drmaa /\ ~avail_condor
         THEN convert_condor_to_sge(tool_spec) ELSE tool_spec
    ELSE IF Get(tool_spec, "runner", local) = sge
    THEN IF avail_condor /\ ~avail_drmaa
         THEN convert_condor_to_sge(tool_spec) ELSE tool_spec
    ELSE tool_spec

\* AdminOverride with the two tests in the other order
AdminOverrideCondorLast(tool_spec, user_roles) ==
    IF force_condor \in ToSet(user_roles)
    THEN convert_sge_to_condor(IF force_drmaa \in ToSet(user_roles)
                               THEN convert_condor_to_sge(tool_spec) ELSE tool_spec)
    ELSE IF force_drmaa \in ToSet(user_roles)
    THEN convert_condor_to_sge(tool_spec) ELSE tool_spec

\* The admin roles of lines 371-375
AdminOverride(tool_spec, user_roles) ==
    IF force_drmaa \in ToSet(user_roles)
    THEN convert_condor_to_sge(IF force_condor \in ToSet(user_roles)
                               THEN convert_sge_to_condor(tool_spec) ELSE tool_spec)
    ELSE IF force_condor \in ToSet(user_roles)
    THEN convert_sge_to_condor(tool_spec) ELSE tool_spec

AuthorizedEmail == "hxr@informatik.uni-freiburg.de"

\* BothDown with one negation missing
BothDownMistyped(avail_condor, avail_drmaa) == ~avail_condor /\ avail_drmaa

\* The condition under which handle_downed_runners raises, line 354
BothDown(avail_condor, avail_drmaa) == ~avail_condor /\ ~avail_drmaa

\* What _gateway raises: "" when it returns
Raised(tool_id, user_email, avail_condor, avail_drmaa) ==
    IF BothDown(avail_condor, avail_drmaa) THEN "Both clusters are currently down"
    ELSE IF tool_id = <<"echo_main_env">> /\ user_email # AuthorizedEmail
    THEN "Unauthorized"
    ELSE ""

\* EchoOverride without the conversion
EchoOverrideForgotten(tool_id, tool_spec) == tool_spec

\* Lines 377-381, for a caller who is authorized
EchoOverride(tool_id, tool_spec) ==
    IF tool_id = <<"echo_main_env">> THEN convert_sge_to_condor(tool_spec)
    ELSE tool_spec

\* Lines 383-386
Built(tool_spec, built, tm) ==
    [raised |-> "", tm |-> tm, env |-> built.env, params |-> built.params,
     runner |-> built.runner, spec |-> tool_spec]

BuildFinal(tool_spec, tm) == Built(tool_spec, build_spec(tool_spec), tm)

\* Lines 369-386, from what _finalize_tool_spec returned
Resolve(tool_id, user_roles, user_email, fin, avail_condor, avail_drmaa) ==
    IF Raised(tool_id, user_email, avail_condor, avail_drmaa) # ""
    THEN [raised |-> Raised(tool_id, user_email, avail_condor, avail_drmaa),
          tm |-> fin.tm]
    ELSE BuildFinal(EchoOverride(tool_id,
                        AdminOverride(handle_downed_runners(fin.v, avail_condor,
                                                            avail_drmaa),
                                      user_roles)),
                    fin.tm)

\* raised is "" when _gateway returns; tm is the cache it leaves behind
_gateway(catalog, tool_id, user_roles, user_email, memory_scale, tm, t, machine_list, avail_condor, avail_drmaa) ==
    Resolve(tool_id, user_roles, user_email,
            _finalize_tool_spec(catalog, tool_id, user_roles, memory_scale, tm, t,
                                machine_list),
            avail_condor, avail_drmaa)

----------------------------------------------------------------------------
(* The remote tier *)

max_tries == 8

\* What a remote attempt can raise that is a requests.exceptions.RequestException
\* (r.json() on a body that is not JSON raises requests' JSONDecodeError)
RequestExceptions == {"ConnectionError", "Timeout", "JSONDecodeError"}

\* What a remote attempt can raise that is not: data['env'] on a JSON object
\* without the key (KeyError), on a JSON array (TypeError)
OtherExceptions == {"KeyError", "TypeError"}

\* The body of the request, lines 397-401
Payload(tool_id, user_roles, user_email, memory_scale) ==
    [tool_id |-> tool_id, user_roles |-> user_roles, email |-> user_email]

\* The answer of the authority at 127.0.0.1:8090: the pipeline, run there on
\* what the request carries, with the memory scale 1.0 when it carries none
Authority(catalog, payload, machine_list, avail_condor, avail_drmaa) ==
    _gateway(catalog, payload.tool_id, payload.user_roles, payload.email,
             Get(payload, "memory_scale", 10), EmptyDict, 0, machine_list,
             avail_condor, avail_drmaa)

----------------------------------------------------------------------------
(* gateway and resubmit_gateway *)

NoUser == [present |-> FALSE, all_roles |-> <<>>, email |-> ""]

\* [role.name for role in user.all_roles() if not role.deleted]
UserRoles(user) ==
    IF user.present
    THEN LET live == SelectSeq(user.all_roles, LAMBDA role : ~role.deleted)
         IN  [i \in DOMAIN live |-> live[i].name]
    ELSE <<>>

UserEmail(user) == IF user.present THEN user.email ELSE ""

\* LocalArgs without the memory scale, which _gateway then defaults to 1.0
LocalArgsDefaultScale(c) ==
    [tool_id |-> c.tool_id, user_roles |-> UserRoles(c.user),
     user_email |-> UserEmail(c.user), memory_scale |-> 10]

\* The arguments gateway gives _gateway, line 420
LocalArgs(c) ==
    [tool_id |-> c.tool_id, user_roles |-> UserRoles(c.user),
     user_email |-> UserEmail(c.user), memory_scale |-> c.memory_scale]

\* The arguments gateway gives _gateway2, line 417
RemoteArgs(c) ==
    [tool_id |-> c.tool_id, user_roles |-> UserRoles(c.user),
     user_email |-> UserEmail(c.user), memory_scale |-> c.memory_scale]

\* The memory scale of each entry point, lines 407 and 443
MemoryScale(op) == IF op = "resubmit_gateway" THEN 15 ELSE 10

JobDestination(spec, g) ==
    [id |-> name_it(spec), runner |-> g.runner, params |-> g.params, env |-> g.env,
     resubmit |-> <<[condition |-> "any_failure", destination |-> "resubmit_gateway"]>>]

\* Resubmitted without the suffix
ResubmittedWithoutSuffix(job_destination) ==
    [job_destination EXCEPT !.resubmit = <<>>]

\* What resubmit_gateway makes of the destination gateway returned
Resubmitted(job_destination) ==
    [job_destination EXCEPT !.resubmit = <<>>, !.id = @ \o "_resubmit"]

\* The destination the entry point op returns for the resolution g
Returned(op, g) ==
    IF op = "resubmit_gateway" THEN Resubmitted(JobDestination(g.spec, g))
    ELSE JobDestination(g.spec, g)

----------------------------------------------------------------------------
(* The inputs of the model *)

LongBwa == <<"toolshed", "repos", "devteam", "bwa", "bwa", "0.7.17">>

ToolIds == {<<"upload1">>, <<"__SET_METADATA__">>, <<"echo_main_env">>, LongBwa,
            <<"hisat">>, <<"sort">>, <<"cat">>, <<"mystery">>}

\* tool_destinations.yaml without a record for upload1
BaseCatalog ==
    (<<"bwa">> :> [cores |-> 2, mem |-> PyInt(8)])
    @@ (<<"hisat">> :> [runner |-> condor, cores |-> 4, mem |-> PyInt(5), tmp |-> "large"])
    @@ (<<"sort">> :> [mem |-> PyInt(16)])
    @@ (<<"cat">> :> [runner |-> sge])

\* The records tool_destinations.yaml may hold for upload1
UploadRecords == {[runner |-> sge, cores |-> 8, mem |-> PyInt(32)],
                  [runner |-> condor, mem |-> PyInt(2)]}

Catalogs == {(<<"upload1">> :> r) @@ BaseCatalog : r \in UploadRecords}

Role(name, deleted) == [name |-> name, deleted |-> deleted]

Users ==
    {NoUser,
     [present |-> TRUE, email |-> "trainee@example.org",
      all_roles |-> <<Role(TrainingPrefix \o <<"b">>, FALSE)>>],
     [present |-> TRUE, email |-> "admin@example.org",
      all_roles |-> <<Role(force_condor, FALSE)>>],
     [present |-> TRUE, email |-> "admin@example.org",
      all_roles |-> <<Role(force_drmaa, FALSE)>>],
     [present |-> TRUE, email |-> AuthorizedEmail,
      all_roles |-> <<Role(force_drmaa, TRUE)>>],
     [present |-> TRUE, email |-> AuthorizedEmail,
      all_roles |-> <<Role(force_drmaa, FALSE)>>],
     [present |-> TRUE, email |-> "admin@example.org",
      all_roles |-> <<Role(force_condor, FALSE), Role(force_drmaa, FALSE)>>]}

\* The machine names condor_status lists when it succeeds
Cluster == <<<<"b", "-", "t", "r", "a", "i", "n", "i", "n", "g", "-", "2">>, <<"a", "-", "t", "r", "a", "i", "n", "i", "n", "g", "-", "1">>>>

\* What subprocess.check_output(['condor_status', '-long', ...]) can yield
MachineLists == {Cluster, <<>>}

\* The kill-switch files under /usr/local/galaxy
Markers == {"temporarily-disable-drmaa", "temporarily-disable-condor"}

\* time.time() when the module is loaded
StartTime == 1000

----------------------------------------------------------------------------
(* The specification of the gateway.  The files on disk, the outcome of    *)
(* condor_status and the machines it lists are inputs of the step that     *)
(* reads them.                                                             *)

NoCall == [op |-> "", tool_id |-> <<>>, user |-> NoUser, memory_scale |-> 10]

Init ==
    /\ TOOL_DESTINATIONS \in Catalogs
    /\ TRAINING_MACHINES = EmptyDict
    /\ now = StartTime
    /\ pc = "idle"
    /\ call = NoCall
    /\ tries = 0
    /\ ret = {}
    /\ arg = EmptyDict
    /\ out = {}

\* The host calls gateway or resubmit_gateway
Call(op, tool_id, user) ==
    /\ pc = "idle"
    /\ pc' = "remote"
    /\ call' = [op |-> op, tool_id |-> tool_id, user |-> user,
                memory_scale |-> MemoryScale(op)]
    /\ tries' = 0
    /\ ret' = {}
    /\ UNCHANGED <<TOOL_DESTINATIONS, TRAINING_MACHINES, now, arg, out>>

\* A remote attempt raises a RequestException: backoff retries it, and gives
\* up with the exception, which gateway catches, after max_tries attempts
RemoteRaises(kind) ==
    /\ pc = "remote"
    /\ tries' = tries + 1
    /\ pc' = IF tries + 1 >= max_tries THEN "local" ELSE "remote"
    /\ UNCHANGED <<TOOL_DESTINATIONS, TRAINING_MACHINES, now, call, ret, arg, out>>

\* A remote attempt raises something else: neither backoff nor gateway
\* catches it, and the call raises it to the host
RemoteBreaks(kind) ==
    /\ pc = "remote"
    /\ tries' = tries + 1
    /\ pc' = "done"
    /\ ret' = {[raised |-> kind, tier |-> "remote"]}
    /\ UNCHANGED <<TOOL_DESTINATIONS, TRAINING_MACHINES, now, call, arg, out>>

\* A remote attempt is answered
RemoteAnswers(machine_list, avail_condor, avail_drmaa) ==
    /\ pc = "remote"
    /\ \E a \in {RemoteArgs(call)} :
        \E g \in {Authority(TOOL_DESTINATIONS,
                            Payload(a.tool_id, a.user_roles, a.user_email,
                                    a.memory_scale),
                            machine_list, avail_condor, avail_drmaa)} :
            /\ g.raised = ""
            /\ ret' = {[raised |-> "", tier |-> "remote",
                        dest |-> Returned(call.op, g), spec |-> g.spec]}
    /\ tries' = tries + 1
    /\ pc' = "done"
    /\ UNCHANGED <<TOOL_DESTINATIONS, TRAINING_MACHINES, now, call, arg, out>>

\* The fallback: _gateway runs in this process.  Beside what the call
\* returns, ret records what _gateway was given and what the probes said.
Local(files, status, machine_list) ==
    /\ pc = "local"
    /\ \E a \in {LocalArgs(call)},
          avail_condor \in {condor_is_available(files, status)},
          avail_drmaa \in {drmaa_is_available(files)} :
        \E g \in {_gateway(TOOL_DESTINATIONS, a.tool_id, a.user_roles, a.user_email,
                           a.memory_scale, TRAINING_MACHINES, now, machine_list,
                           avail_condor, avail_drmaa)} :
           /\ TRAINING_MACHINES' = g.tm
           /\ ret' = {IF g.raised = ""
                      THEN [raised |-> "", tier |-> "local",
                            dest |-> Returned(call.op, g), spec |-> g.spec,
                            args |-> a, avail_condor |-> avail_condor,
                            avail_drmaa |-> avail_drmaa]
                      ELSE [raised |-> g.raised, tier |-> "local",
                            args |-> a, avail_condor |-> avail_condor,
                            avail_drmaa |-> avail_drmaa]}
    /\ pc' = "done"
    /\ UNCHANGED <<TOOL_DESTINATIONS, now, call, tries, arg, out>>

\* The call returns or raises to the host
Return ==
    /\ pc = "done"
    /\ pc' = "idle"
    /\ call' = NoCall
    /\ tries' = 0
    /\ ret' = {}
    /\ UNCHANGED <<TOOL_DESTINATIONS, TRAINING_MACHINES, now, arg, out>>

Next ==
    \/ \E op \in {"gateway", "resubmit_gateway"}, tool_id \in ToolIds, user \in Users :
            Call(op, tool_id, user)
    \/ \E kind \in RequestExceptions : RemoteRaises(kind)
    \/ \E kind \in OtherExceptions : RemoteBreaks(kind)
    \/ \E machine_list \in MachineLists, avail_condor \in BOOLEAN, avail_drmaa \in BOOLEAN :
            RemoteAnswers(machine_list, avail_condor, avail_drmaa)
    \/ \E files \in SUBSET Markers, status \in CondorStatusOutcomes,
          machine_list \in MachineLists :
            Local(files, status, machine_list)
    \/ Return

Spec == Init /\ [][Next]_vars

----------------------------------------------------------------------------
(* build_spec and name_it on their own: the record is drawn from          *)
(* BuildInputs and the functions are applied to it.                       *)

condor_docker == condor \o <<"-", "d", "o", "c", "k", "e", "r">>

\* A runner that SPECIFICATIONS does not know
pulsar == <<"p", "u", "l", "s", "a", "r">>

Opt(key, values) == {EmptyDict} \cup {key :> v : v \in values}

BuildInputs ==
    {r @@ c @@ m @@ x :
        r \in Opt("runner", {sge, condor, condor_docker, local, pulsar}),
        c \in Opt("cores", {1, 2, 3, 7, 24, 25, 40, 41, 48}),
        m \in Opt("mem", {PyFloat(6), PyInt(4), PyFloat(150), PyInt(8), PyInt(16),
                          PyInt(248), PyFloat(4970), PyInt(254), PyInt(255),
                          PyFloat(6000)}),
        x \in {EmptyDict, [tmp |-> "large"],
               [env |-> [_JAVA_OPTIONS |-> <<Lit("-Xmx"), Tok("MEMORY")>>],
                nativeSpecExtra |-> "-l hostname=x "],
               [requirements |-> "(machine == \"x\")", priority |-> 64,
                name |-> "special"]}}

InitBuild ==
    /\ TOOL_DESTINATIONS = BaseCatalog
    /\ TRAINING_MACHINES = EmptyDict
    /\ now = StartTime
    /\ pc = "build"
    /\ call = NoCall
    /\ tries = 0
    /\ ret = {}
    /\ arg \in BuildInputs
    /\ out = {}

\* build_spec(arg) and name_it(arg), as the module's __main__ applies them
Build ==
    /\ pc = "build"
    /\ out' = {[built |-> build_spec(arg), name |-> name_it(arg)]}
    /\ pc' = "built"
    /\ UNCHANGED <<TOOL_DESTINATIONS, TRAINING_MACHINES, now, call, tries, ret, arg>>

NextBuild == Build

SpecBuild == InitBuild /\ [][NextBuild]_vars

----------------------------------------------------------------------------
(* The affinity expressions and the inventory cache on their own: calls   *)
(* of avoid_machines and prefer_machines as time passes.                   *)

\* A cluster that also has a machine of the upload group
MixedCluster == <<<<"c", "-", "u", "p", "l", "o", "a", "d", "-", "1">>>> \o Cluster

MachineListsA == {Cluster, MixedCluster, <<>>}

Identifiers == {<<>>, <<<<"a">>>>, <<<<"b">>>>, <<<<"1">>>>, <<<<"b">>, <<"1">>>>,
                <<upload>>}

\* The longest time the model lets pass
MaxElapsed == 61

InitAffinity ==
    /\ TOOL_DESTINATIONS = BaseCatalog
    /\ TRAINING_MACHINES = EmptyDict
    /\ now = StartTime
    /\ pc = "affinity"
    /\ call = NoCall
    /\ tries = 0
    /\ ret = {}
    /\ arg = EmptyDict
    /\ out = {}

\* avoid_machines(permissible); out records the call, what it returned and
\* the inventory of the training group it left in the cache
Avoid(permissible, machine_list) ==
    /\ pc = "affinity"
    /\ LET got == avoid_machines(permissible, TRAINING_MACHINES, now, machine_list)
       IN  /\ TRAINING_MACHINES' = got.tm
           /\ out' = {[fn |-> "avoid_machines", given |-> permissible,
                       group |-> training, expr |-> got.v,
                       inventory |-> ToSet(got.tm[training].machines)]}
    /\ UNCHANGED <<TOOL_DESTINATIONS, now, pc, call, tries, ret, arg>>

\* prefer_machines(training_identifiers, machine_group)
Prefer(training_identifiers, machine_group, machine_list) ==
    /\ pc = "affinity"
    /\ LET got == prefer_machines(training_identifiers, machine_group,
                                  TRAINING_MACHINES, now, machine_list)
       IN  /\ TRAINING_MACHINES' = got.tm
           /\ out' = {[fn |-> "prefer_machines", given |-> training_identifiers,
                       group |-> machine_group, expr |-> got.v,
                       inventory |-> ToSet(got.tm[machine_group].machines)]}
    /\ UNCHANGED <<TOOL_DESTINATIONS, now, pc, call, tries, ret, arg>>

\* Time passes
Tick(seconds) ==
    /\ now + seconds <= StartTime + MaxElapsed
    /\ now' = now + seconds
    /\ UNCHANGED <<TOOL_DESTINATIONS, TRAINING_MACHINES, pc, call, tries, ret, arg, out>>

NextAffinity ==
    \/ \E permissible \in Identifiers, machine_list \in MachineListsA :
            Avoid(permissible, machine_list)
    \/ \E training_identifiers \in Identifiers, machine_group \in {training, upload},
          machine_list \in MachineListsA :
            Prefer(training_identifiers, machine_group, machine_list)
    \/ \E seconds \in {STALE_CONDOR_HOST_INTERVAL \div 2,
                       STALE_CONDOR_HOST_INTERVAL \div 2 + 1} : Tick(seconds)

SpecAffinity == InitAffinity /\ [][NextAffinity]_vars

----------------------------------------------------------------------------
(* The same resolution made again and again by the local pipeline, among   *)
(* other resolutions and as time passes: call holds its input and arg the  *)
(* probe results, which do not change; out keeps what the first one        *)
(* returned and ret what the latest one did, each with the machine lists   *)
(* the resolution left in the cache.                                       *)

RepeatedTools == {<<"hisat">>, <<"upload1">>, LongBwa}

RepeatedUsers == {u \in Users : u.email \in {"", "trainee@example.org"}}

\* The machine lists of the cache, group by group
Inventory(tm) == [group \in DOMAIN tm |-> tm[group].machines]

\* What the entry point returns or raises for the resolution g
Outcome(op, g) ==
    IF g.raised = "" THEN [raised |-> "", dest |-> Returned(op, g), spec |-> g.spec]
    ELSE [raised |-> g.raised]

InitRepeat ==
    /\ TOOL_DESTINATIONS \in Catalogs
    /\ TRAINING_MACHINES = EmptyDict
    /\ now = StartTime
    /\ pc = "repeat"
    /\ \E op \in {"gateway", "resubmit_gateway"}, tool_id \in RepeatedTools,
          user \in RepeatedUsers :
            call = [op |-> op, tool_id |-> tool_id, user |-> user,
                    memory_scale |-> MemoryScale(op)]
    /\ tries = 0
    /\ ret = {}
    /\ \E avail_condor \in BOOLEAN, avail_drmaa \in BOOLEAN :
            /\ ~BothDown(avail_condor, avail_drmaa)
            /\ arg = [avail_condor |-> avail_condor, avail_drmaa |-> avail_drmaa]
    /\ out = {}

\* The resolution of call
Resolution(machine_list) ==
    /\ pc = "repeat"
    /\ \E a \in {LocalArgs(call)} :
        \E g \in {_gateway(TOOL_DESTINATIONS, a.tool_id, a.user_roles, a.user_email,
                           a.memory_scale, TRAINING_MACHINES, now, machine_list,
                           arg.avail_condor, arg.avail_drmaa)} :
           /\ TRAINING_MACHINES' = g.tm
           /\ IF out = {}
              THEN /\ out' = {[outcome |-> Outcome(call.op, g),
                               inventory |-> Inventory(g.tm)]}
                   /\ ret' = ret
              ELSE /\ ret' = {[outcome |-> Outcome(call.op, g),
                               inventory |-> Inventory(g.tm)]}
                   /\ out' = out
    /\ UNCHANGED <<TOOL_DESTINATIONS, now, pc, call, tries, arg>>

\* Another resolution: all it leaves behind is the cache
OtherResolution(tool_id, machine_list) ==
    /\ pc = "repeat"
    /\ TRAINING_MACHINES' =
            _gateway(TOOL_DESTINATIONS, tool_id, UserRoles(NoUser), UserEmail(NoUser),
                     MemoryScale("gateway"), TRAINING_MACHINES, now, machine_list,
                     arg.avail_condor, arg.avail_drmaa).tm
    /\ UNCHANGED <<TOOL_DESTINATIONS, now, pc, call, tries, ret, arg, out>>

NextRepeat ==
    \/ \E machine_list \in MachineLists : Resolution(machine_list)
    \/ \E tool_id \in {<<"upload1">>, <<"hisat">>}, machine_list \in MachineLists :
            OtherResolution(tool_id, machine_list)
    \/ \E seconds \in {STALE_CONDOR_HOST_INTERVAL \div 2,
                       STALE_CONDOR_HOST_INTERVAL \div 2 + 1} : Tick(seconds)

SpecRepeat == InitRepeat /\ [][NextRepeat]_vars

----------------------------------------------------------------------------
(* get_training_machines called by the threads of the host, statement by  *)
(* statement: nothing in the module serializes them.  call holds, for each *)
(* thread, the statement it is at, its group and its machine_list; out     *)
(* logs the invocations of condor_status and ret the lists returned.       *)

Threads == {1, 2}

Groups == {training, upload}

Idle == [at |-> "idle", group |-> <<>>, machine_list |-> <<>>]

InitRefresh ==
    /\ TOOL_DESTINATIONS = BaseCatalog
    /\ TRAINING_MACHINES = EmptyDict
    /\ now = StartTime
    /\ pc = "threads"
    /\ call = [th \in Threads |-> Idle]
    /\ tries = 0
    /\ ret = {}
    /\ arg = EmptyDict
    /\ out = {}

\* The cache with the group defined, lines 200-204
Defined(tm, group) ==
    IF group \in DOMAIN tm THEN tm
    ELSE Update(tm, group :> [updated |-> 0, machines |-> <<>>])

\* Lines 200-206 and 223: the group is defined, the age of its list is
\* tested, and a list that is young enough is returned
Enter(th, group) ==
    /\ pc = "threads"
    /\ call[th].at = "idle"
    /\ TRAINING_MACHINES' = Defined(TRAINING_MACHINES, group)
    /\ IF now - Defined(TRAINING_MACHINES, group)[group].updated
                > STALE_CONDOR_HOST_INTERVAL
       THEN /\ call' = [call EXCEPT ![th] = [at |-> "probe", group |-> group,
                                             machine_list |-> <<>>]]
            /\ ret' = ret
       ELSE /\ ret' = {[thread |-> th, group |-> group, probed |-> FALSE,
                        machines |-> Defined(TRAINING_MACHINES, group)[group].machines]}
            /\ call' = call
    /\ UNCHANGED <<TOOL_DESTINATIONS, now, pc, tries, arg, out>>

\* Lines 208-213: condor_status runs
Probe(th, machine_list) ==
    /\ pc = "threads"
    /\ call[th].at = "probe"
    /\ call' = [call EXCEPT ![th].at = "store", ![th].machine_list = machine_list]
    /\ out' = out \cup {[thread |-> th, group |-> call[th].group, at |-> now]}
    /\ UNCHANGED <<TOOL_DESTINATIONS, TRAINING_MACHINES, now, pc, tries, ret, arg>>

\* Lines 216-220: the list of the group is replaced
Store(th) ==
    /\ pc = "threads"
    /\ call[th].at = "store"
    /\ TRAINING_MACHINES' =
            [TRAINING_MACHINES EXCEPT ![call[th].group].machines =
                SelectSeq(call[th].machine_list,
                          LAMBDA x : Contains(<<"-">> \o call[th].group \o <<"-">>, x))]
    /\ call' = [call EXCEPT ![th].at = "stamp"]
    /\ UNCHANGED <<TOOL_DESTINATIONS, now, pc, tries, ret, arg, out>>

\* Lines 222-223: the refresh is dated and the list returned
Stamp(th) ==
    /\ pc = "threads"
    /\ call[th].at = "stamp"
    /\ TRAINING_MACHINES' =
            [TRAINING_MACHINES EXCEPT ![call[th].group].updated = now]
    /\ ret' = {[thread |-> th, group |-> call[th].group, probed |-> TRUE,
                machines |-> TRAINING_MACHINES[call[th].group].machines]}
    /\ call' = [call EXCEPT ![th] = Idle]
    /\ UNCHANGED <<TOOL_DESTINATIONS, now, pc, tries, arg, out>>

NextRefresh ==
    \/ \E th \in Threads, group \in Groups : Enter(th, group)
    \/ \E th \in Threads, machine_list \in {MixedCluster, <<>>} : Probe(th, machine_list)
    \/ \E th \in Threads : Store(th)
    \/ \E th \in Threads : Stamp(th)
    \/ \E seconds \in {STALE_CONDOR_HOST_INTERVAL \div 2,
                       STALE_CONDOR_HOST_INTERVAL \div 2 + 1} : Tick(seconds)

SpecRefresh == InitRefresh /\ [][NextRefresh]_vars

----------------------------------------------------------------------------
(* Properties of the local pipeline, stated on what a call that fell back *)
(* to it left in ret.                                                     *)

\* The record _finalize_tool_spec made for the resolution r; its runner and
\* mem do not depend on the inventory
Finalized(r) ==
    _finalize_tool_spec(TOOL_DESTINATIONS, r.args.tool_id, r.args.user_roles,
                        r.args.memory_scale, EmptyDict, now, <<>>).v

\* The local resolutions that returned with Condor reported down, SGE
\* reported up and a record that targeted Condor before the fallback
CondorDownTargets ==
    {r \in ret : /\ r.tier = "local" /\ r.raised = ""
                 /\ ~r.avail_condor /\ r.avail_drmaa
                 /\ Get(Finalized(r), "runner", local) = condor}

\* Whether the caller or the tool sends the record back to Condor after the
\* fallback (lines 372-373 and 377-381)
SentBackToCondor(r) ==
    \/ force_condor \in ToSet(r.args.user_roles) /\ force_drmaa \notin ToSet(r.args.user_roles)
    \/ r.args.tool_id = <<"echo_main_env">>

----------------------------------------------------------------------------
(* Properties of build_spec, stated on what Build left in out for arg.    *)

ArgRunner == Get(arg, "runner", sge)

ArgIsSge == ArgRunner = sge

ArgIsCondor == ~ArgIsSge /\ Contains(condor, ArgRunner)

\* The mem the record asks for, and the one left by a ceiling of gigabytes
ArgMem == Get(arg, "mem", PyInt(4))

Capped(m, gigabytes) == IF m.v > gigabytes * GB THEN PyInt(gigabytes) ELSE m

\* The core count and the gigabytes of memory a result requests of SGE:
\* cores as rendered into PARALLELISATION, memory per core as rendered into
\* MEMORY, in megabytes, times the cores requested
SgeRequestWithin(o, cores, gigabytes) ==
    LET k == o.built.kwargs
        asked == Capped(ArgMem, gigabytes)
        most == (1024 * asked.v) \div GB + 1
    IN  IF "cores" \in DOMAIN arg
        THEN \E n \in 1..cores :
                /\ k.PARALLELISATION = "-pe \"pe*\" " \o ToString(n)
                /\ o.built.raw["cpu"] = n
                /\ o.built.raw["mem"].v <= gigabytes * GB
                /\ \E mb \in ((1024 * asked.v) \div (GB * arg["cores"]) - 1)..most :
                        /\ k.MEMORY = ToString(mb) \o "M"
                        /\ mb * n <= gigabytes * 1024
        ELSE /\ k.PARALLELISATION = ""
             /\ k.MEMORY = PyStr(asked) \o "G"
             /\ asked.v <= gigabytes * GB

\* The same for a Condor-family runner, which gets cores and memory as such
CondorRequestWithin(o, cores, gigabytes) ==
    LET k == o.built.kwargs
        asked == Capped(ArgMem, gigabytes)
    IN  /\ k.MEMORY = PyStr(asked) \o "G"
        /\ asked.v <= gigabytes * GB
        /\ "mem" \in DOMAIN o.built.raw => o.built.raw["mem"].v <= gigabytes * GB
        /\ IF "cores" \in DOMAIN arg
           THEN \E n \in 1..cores : /\ k.PARALLELISATION = ToString(n)
                                    /\ o.built.raw["cpu"] = n
                                    /\ "request_cpus" \in DOMAIN o.built.params
                                         => o.built.params["request_cpus"] = ToString(n)
           ELSE k.PARALLELISATION = ""

\* C2: whatever cores and mem a ToolSpec asks for, build_spec requests at
\* most 24 cores and 254 GB of SGE and at most 40 cores and 248 GB of a
\* Condor-family runner.
C2_WithinCeiling ==
    \A o \in out :
        /\ ArgIsSge => SgeRequestWithin(o, 24, 254)
        /\ ArgIsCondor => CondorRequestWithin(o, 40, 248)

\* C2 witness: records that ask for more than the ceiling, of SGE and of a
\* Condor-family runner, have been built
C2_Witness ==
    /\ out # {}
    /\ "cores" \in DOMAIN arg /\ "mem" \in DOMAIN arg
    /\ arg["cores"] > 40 /\ arg["mem"].v > 254 * GB
    /\ ArgIsCondor /\ ArgRunner # condor

\* The effective, clamped values of an SGE record
SgeCores == IF arg["cores"] > 24 THEN 24 ELSE arg["cores"]

SgeMem == Capped(ArgMem, 254)

BuiltForSgeWithCores == {o \in out : ArgIsSge /\ "cores" \in DOMAIN arg}

\* The integers next to the quotient of a by b
Near(a, b) == {mb \in (a \div b - 1)..(a \div b + 1) : mb >= 0}

C13_AsClaimed ==
    \A o \in out :
        /\ o.built.runner \in {"drmaa", "condor", "local"}
        /\ ("runner" \notin DOMAIN arg \/ ~(ArgIsSge \/ ArgIsCondor)) =>
                o.built.runner = "local"

\* C13 amended: the runner of every result of build_spec is 'drmaa',
\* 'condor' or 'local': 'drmaa' for a record whose runner is 'sge' or
\* absent, 'condor' for a runner that contains 'condor', and 'local' for
\* any other runner.
C13_KnownRunner ==
    \A o \in out :
        /\ o.built.runner \in {"drmaa", "condor", "local"}
        /\ "runner" \notin DOMAIN arg => o.built.runner = "drmaa"
        /\ "runner" \in DOMAIN arg =>
            o.built.runner =
                (IF arg["runner"] = sge THEN "drmaa"
                 ELSE IF arg["runner"] \in {condor, condor_docker} THEN "condor"
                 ELSE "local")

\* C13 witness: a record with a runner no template knows is built for 'local'
C13_Witness ==
    \E o \in out :
        /\ "runner" \in DOMAIN arg /\ arg["runner"] = pulsar
        /\ o.built.runner = "local"
        /\ o.built.params = EmptyDict

----------------------------------------------------------------------------
(* Properties of gateway and resubmit_gateway, stated on what a call left *)
(* in ret before it returned to the host.                                 *)

\* The roles gateway derived from the caller of the call in progress
CallerRoles == ToSet(UserRoles(call.user))

\* The local resolutions of upload1 that returned
UploadResults ==
    {r \in ret : r.tier = "local" /\ r.raised = "" /\ call.tool_id = <<"upload1">>}

\* C4 as claimed: tool id 'upload1' always resolves to the Condor family
\* with mem == 0.3, for every catalog override, role set, memory scale and
\* combination of backend availability in which a descriptor is produced.
C4_AsClaimed ==
    \A r \in UploadResults :
        /\ r.spec["runner"] = condor
        /\ r.dest.runner = "condor"
        /\ r.spec["mem"] = PyFloat(6)

\* C4 amended: for tool id 'upload1' the catalog record and the memory scale
\* never reach the result, whose keys are mem, runner, requirements and env;
\* it is on Condor with mem 0.3 when Condor is available and the caller does
\* not hold gx-admin-force-jobs-to-drmaa; otherwise its mem is rounded up
\* to 1, and it is on SGE unless Condor is down and the caller holds
\* gx-admin-force-jobs-to-condor and not gx-admin-force-jobs-to-drmaa.
C4_UploadSpecialCase ==
    \A r \in UploadResults :
        /\ DOMAIN r.spec = {"mem", "runner", "requirements", "env"}
        /\ IF r.avail_condor /\ force_drmaa \notin CallerRoles
           THEN /\ r.spec["runner"] = condor
                /\ r.dest.runner = "condor"
                /\ r.spec["mem"] = PyFloat(6)
           ELSE /\ r.spec["mem"] = PyInt(1)
                /\ IF force_drmaa \notin CallerRoles /\ force_condor \in CallerRoles
                   THEN r.spec["runner"] = condor /\ r.dest.runner = "condor"
                   ELSE r.spec["runner"] = sge /\ r.dest.runner = "drmaa"

\* C4 witness: a resubmission of upload1, whose catalog record asks SGE for
\* 8 cores and 32 GB, resolved on Condor with mem 0.3
C4_Witness ==
    \E r \in UploadResults :
        /\ call.op = "resubmit_gateway"
        /\ TOOL_DESTINATIONS[<<"upload1">>]["mem"] = PyInt(32)
        /\ r.avail_condor /\ r.avail_drmaa
        /\ r.spec["mem"] = PyFloat(6)
        /\ r.dest.runner = "condor"

\* The destinations resubmit_gateway returned
ResubmitResults == {r \in ret : r.raised = "" /\ call.op = "resubmit_gateway"}

\* The id gateway's pipeline gives the call in progress under the probe
\* results of r, for a memory scale, a state of the cache and an inventory
PipelineId(r, memory_scale, tm, machine_list) ==
    name_it(_gateway(TOOL_DESTINATIONS, call.tool_id, UserRoles(call.user),
                     UserEmail(call.user), memory_scale, tm, now, machine_list,
                     r.avail_condor, r.avail_drmaa).spec)

BothDownResults ==
    {r \in ret : r.tier = "local" /\ ~r.avail_condor /\ ~r.avail_drmaa}

\* C6: when both probes report down, the local resolution raises and leaves
\* no destination, for every tool id, role set and identity, and gateway
\* ends the call with that error without another attempt.
C6_BothDownFatal ==
    \A r \in BothDownResults :
        /\ r.raised = "Both clusters are currently down"
        /\ "dest" \notin DOMAIN r /\ "spec" \notin DOMAIN r
        /\ pc = "done"
        /\ tries = 8

\* C6 witness: echo_main_env, called by a caller who is not authorized, ends
\* with the error of the downed clusters
C6_Witness ==
    \E r \in BothDownResults :
        /\ call.tool_id = <<"echo_main_env">>
        /\ UserEmail(call.user) # AuthorizedEmail
        /\ r.raised = "Both clusters are currently down"

\* C7: the remote authority is attempted at most 8 times per call; the local
\* pipeline runs only once all 8 attempts have raised a transport failure
\* and none has left a result, with the tool id, roles, identity and scale
\* gateway was called with; a remote answer ends the call.
C7_BoundedRetryThenLocal ==
    /\ tries <= 8
    /\ pc = "remote" => tries < 8 /\ ret = {}
    /\ pc = "local" => tries = 8 /\ ret = {}
    /\ \A r \in ret :
        /\ pc = "done"
        /\ r.tier = "remote" => "args" \notin DOMAIN r
        /\ r.tier = "local" =>
            /\ tries = 8
            /\ r.args.tool_id = call.tool_id
            /\ r.args.user_roles = UserRoles(call.user)
            /\ r.args.user_email = UserEmail(call.user)
            /\ r.args.memory_scale = call.memory_scale
            /\ r.args.memory_scale = (IF call.op = "resubmit_gateway" THEN 15 ELSE 10)

\* C7 witness: a resubmission that the local pipeline resolved after 8
\* remote attempts
C7_Witness ==
    \E r \in ret :
        /\ r.tier = "local" /\ r.raised = ""
        /\ tries = 8
        /\ call.op = "resubmit_gateway"
        /\ r.args.memory_scale = 15

\* C8 as claimed: however a remote attempt fails, the call ends with what
\* the local pipeline returned or raised, never with the failure of the
\* remote attempt.
C8_AsClaimed ==
    \A r \in ret : r.tier = "remote" => r.raised = ""

\* The destinations gateway returned from the local pipeline, with both
\* clusters up, to a caller without roles
PlainResults ==
    {r \in ret : /\ r.tier = "local" /\ r.raised = ""
                 /\ r.avail_condor /\ r.avail_drmaa
                 /\ call.op = "gateway" /\ CallerRoles = {}}

\* The catalog record of the tool of the call in progress
Record == Get(TOOL_DESTINATIONS, get_tool_id(call.tool_id), EmptyDict)

\* C10 as claimed: the id of the destination gateway returns follows the
\* shape of the tool's catalog record: '2cores_8G' for {cores: 2, mem: 8},
\* 'sge_default' for a record that is absent or holds only a runner,
\* '16G_memory' for {mem: 16}, with '_large' appended for tmp 'large'.
C10_AsClaimed ==
    \A r \in PlainResults :
        /\ Record = [cores |-> 2, mem |-> PyInt(8)] => r.dest.id = "2cores_8G"
        /\ Record = [mem |-> PyInt(16)] => r.dest.id = "16G_memory"
        /\ call.tool_id = <<"mystery">> => r.dest.id = "sge_default"
        /\ Record = [runner |-> sge] => r.dest.id = "sge_default"
        /\ Get(Record, "tmp", "") = "large" => r.dest.id = "4cores_5G_large"

\* The local resolutions that returned
LocalResults == {r \in ret : r.tier = "local" /\ r.raised = ""}

\* C11 as claimed: a caller holding gx-admin-force-jobs-to-condor always ends
\* with runner 'condor' and a caller holding gx-admin-force-jobs-to-drmaa
\* always ends with runner 'sge', for every tool id and every probe result
\* with a backend up.
C11_AsClaimed ==
    \A r \in LocalResults :
        /\ force_condor \in CallerRoles => r.spec["runner"] = condor
        /\ force_drmaa \in CallerRoles => r.spec["runner"] = sge

\* C11 amended: for every tool id but echo_main_env and every probe result
\* with a backend up, a caller holding gx-admin-force-jobs-to-drmaa ends with
\* runner 'sge', also when holding gx-admin-force-jobs-to-condor, and a
\* caller holding only gx-admin-force-jobs-to-condor ends with runner
\* 'condor'; echo_main_env ends with runner 'condor' whatever the roles.
C11_AdminOverride ==
    \A r \in LocalResults :
        IF call.tool_id = <<"echo_main_env">>
        THEN r.spec["runner"] = condor /\ r.dest.runner = "condor"
        ELSE /\ force_drmaa \in CallerRoles =>
                    r.spec["runner"] = sge /\ r.dest.runner = "drmaa"
             /\ force_condor \in CallerRoles /\ force_drmaa \notin CallerRoles =>
                    r.spec["runner"] = condor /\ r.dest.runner = "condor"

\* C11 witness: a caller holding both roles ends on SGE with a tool whose
\* record targets Condor, and Condor up
C11_Witness ==
    \E r \in LocalResults :
        /\ call.tool_id = <<"hisat">>
        /\ {force_condor, force_drmaa} \subseteq CallerRoles
        /\ r.avail_condor
        /\ r.spec["runner"] = sge

\* The local resolutions of echo_main_env
EchoResults ==
    {r \in ret : r.tier = "local" /\ call.tool_id = <<"echo_main_env">>}

\* C12: the local resolution of echo_main_env raises and leaves no result
\* for every identity but the authorized one (Unauthorized when a backend
\* is up), and for the authorized identity every result is on the Condor
\* family, whatever roles the caller holds.
C12_DiagnosticTool ==
    \A r \in EchoResults :
        IF UserEmail(call.user) # AuthorizedEmail
        THEN /\ r.raised # "" /\ "dest" \notin DOMAIN r /\ "spec" \notin DOMAIN r
             /\ r.avail_condor \/ r.avail_drmaa => r.raised = "Unauthorized"
        ELSE r.raised = "" =>
                /\ r.spec["runner"] = condor
                /\ r.dest.runner = "condor"
                /\ "request_memory" \in DOMAIN r.dest.params

\* C12 witness: the authorized identity, holding
\* gx-admin-force-jobs-to-drmaa, resolves echo_main_env to Condor with
\* Condor reported down
C12_Witness ==
    \E r \in EchoResults :
        /\ UserEmail(call.user) = AuthorizedEmail
        /\ force_drmaa \in CallerRoles
        /\ ~r.avail_condor
        /\ r.raised = "" /\ r.dest.runner = "condor"

\* The local resolutions, with Condor up, of a tool that is not special and
\* whose catalog record targets Condor, for a caller without roles
CondorByDefault ==
    {r \in LocalResults : /\ r.avail_condor
                          /\ CallerRoles = {}
                          /\ call.tool_id \notin {<<"upload1">>, <<"__SET_METADATA__">>}
                          /\ Get(Record, "runner", local) = condor}

\* The training inventory the resolution left in the cache
TrainingInventory == ToSet(TRAINING_MACHINES[training].machines)

\* C15 as claimed: for a caller without a training role and a tool whose
\* catalog record targets Condor, with Condor up, the requirements of the
\* result are avoid_machines([]) over the training inventory.
C15_AsClaimed ==
    \A r \in CondorByDefault :
        r.dest.params["requirements"] = AvoidExpr(<<>>, TrainingInventory)

\* The local resolutions with SGE reported down and Condor up of a record
\* that targeted SGE before the fallback, with no later override
SgeDownTargets ==
    {r \in LocalResults : /\ r.avail_condor /\ ~r.avail_drmaa
                          /\ Get(Finalized(r), "runner", local) = sge
                          /\ CallerRoles \cap {force_condor, force_drmaa} = {}
                          /\ call.tool_id # <<"echo_main_env">>}

\* C16 as claimed: with SGE down and Condor up, handle_downed_runners
\* converts a record that targets SGE to the Condor family.
C16_AsClaimed ==
    \A r \in SgeDownTargets :
        r.spec["runner"] = condor /\ r.dest.runner = "condor"

\* The request body _gateway2 sends for the call in progress
CallPayload ==
    Payload(RemoteArgs(call).tool_id, RemoteArgs(call).user_roles,
            RemoteArgs(call).user_email, RemoteArgs(call).memory_scale)

\* C18 as claimed: the remote authority receives the tool id, roles,
\* identity and scale that the local fallback receives, so a resubmission
\* is resolved with the scale 1.5 by either tier.
C18_AsClaimed ==
    pc = "remote" =>
        /\ CallPayload.tool_id = LocalArgs(call).tool_id
        /\ CallPayload.user_roles = LocalArgs(call).user_roles
        /\ CallPayload.email = LocalArgs(call).user_email
        /\ "memory_scale" \in DOMAIN CallPayload
        /\ CallPayload["memory_scale"] = LocalArgs(call).memory_scale

\* The local resolutions with exactly one cluster reported up, for a caller
\* without admin role and a tool other than echo_main_env
OneClusterUp ==
    {r \in LocalResults : /\ r.avail_condor # r.avail_drmaa
                          /\ CallerRoles \cap {force_condor, force_drmaa} = {}
                          /\ call.tool_id # <<"echo_main_env">>}

\* C19 as claimed: with exactly one cluster reported up, the destination of
\* the local pipeline is never on the cluster reported down, also for a
\* record without runner, which build_spec takes for SGE.
C19_AsClaimed ==
    \A r \in OneClusterUp :
        /\ ~r.avail_drmaa => r.dest.runner # "drmaa"
        /\ ~r.avail_condor => r.dest.runner # "condor"

----------------------------------------------------------------------------
(* Properties of repeated resolutions, stated on what Resolution left in  *)
(* out and ret.                                                            *)

----------------------------------------------------------------------------
(* Properties of concurrent calls of get_training_machines, stated on the *)
(* log of the invocations of condor_status.                                *)

\* C17 as claimed: condor_status is invoked for a group at most once per
\* interval of 60 seconds, also when several threads call
\* get_training_machines for the group at once, and a call that finds the
\* list younger than the interval returns it without an invocation.
C17_AsClaimed ==
    /\ \A p \in out, q \in out :
            (p # q /\ p.group = q.group /\ p.at <= q.at) =>
                q.at - p.at > STALE_CONDOR_HOST_INTERVAL
    /\ \A r \in ret :
            ~r.probed => r.machines = TRAINING_MACHINES[r.group].machines

----------------------------------------------------------------------------
(* Properties of avoid_machines, stated on what Avoid left in out.        *)

\* The calls of avoid_machines over the inventory of the claim
AvoidOverCluster ==
    {o \in out : o.fn = "avoid_machines" /\ o.inventory = ToSet(Cluster)}

\* C9 as claimed: over the inventory {"a-training-1", "b-training-2"},
\* avoid_machines([]) names both machines in name order and
\* avoid_machines(["a"]) removes the machine of group a and names the other.
C9_AsClaimed ==
    \A o \in AvoidOverCluster :
        /\ o.given = <<>> =>
            o.expr = "( (machine != \"a-training-1\") && (machine != \"b-training-2\") )"
        /\ o.given = <<<<"a">>>> =>
            o.expr = "( (machine != \"b-training-2\") )"

====
